---- MODULE Spec2Model ----
(***************************************************************************)
(* A model of validate_gpu.py: the GPU validation run (main), the          *)
(* orchestrator run_validation, the vendor validators and the generic      *)
(* list validator, with the report ledger report_data.                     *)
(*                                                                         *)
(* Text that the program parses (tool output, expected model and VBIOS     *)
(* strings) is a sequence of one-character strings, so that strip, split   *)
(* and the regular expressions are computed character by character.  Text  *)
(* that the program only copies (component tags, literal messages, the     *)
(* vendor tag, the system model identifier) is a TLA+ string.              *)
(***************************************************************************)
EXTENDS Integers, Sequences, FiniteSets, TLC

-----------------------------------------------------------------------------
(* Python str primitives                                                   *)

\* Characters matched by \s and removed by str.strip().
Whitespace == {" ", "\t", "\n", "\r"}

\* Characters matched by \d.
Digits == {"0", "1", "2", "3", "4", "5", "6", "7", "8", "9"}

\* The least element of a non-empty set of integers.
Least(S) == CHOOSE x \in S : \A y \in S : x <= y

\* The greatest element of a non-empty set of integers.
Greatest(S) == CHOOSE x \in S : \A y \in S : y <= x

\* s[a..b] as a sequence (empty when b < a).
Slice(s, a, b) == IF b < a THEN <<>> ELSE SubSeq(s, a, b)

\* str.strip(): drop leading and trailing whitespace.
Strip(s) ==
    LET keep == {i \in 1..Len(s) : s[i] \notin Whitespace}
    IN  IF keep = {} THEN <<>> ELSE SubSeq(s, Least(keep), Greatest(keep))

\* str.split('\n'): always at least one piece; "" splits to [""].
RECURSIVE Split(_)
Split(s) ==
    LET nl == {i \in 1..Len(s) : s[i] = "\n"}
    IN  IF nl = {} THEN <<s>>
        ELSE <<Slice(s, 1, Least(nl) - 1)>> \o Split(Slice(s, Least(nl) + 1, Len(s)))

\* "\n".join(lines): the stdout a tool prints for the given lines.
RECURSIVE JoinLines(_)
JoinLines(lines) ==
    IF lines = <<>> THEN <<>>
    ELSE IF Len(lines) = 1 THEN lines[1]
    ELSE lines[1] \o <<"\n">> \o JoinLines(Tail(lines))

\* [line for line in lines if line.strip()]
RECURSIVE NonBlank(_)
NonBlank(lines) ==
    IF lines = <<>> THEN <<>>
    ELSE IF Strip(lines[1]) # <<>> THEN <<lines[1]>> \o NonBlank(Tail(lines))
    ELSE NonBlank(Tail(lines))

\* s has the literal lit at position i.
HasAt(s, i, lit) ==
    /\ i >= 1
    /\ i + Len(lit) - 1 <= Len(s)
    /\ \A k \in 1..Len(lit) : s[i + k - 1] = lit[k]

\* The first position >= i of s whose character is not in class C
\* (Len(s) + 1 when there is none): the end of a greedy run of C.
RunEnd(s, i, C) ==
    Least({k \in i..Len(s) : s[k] \notin C} \cup {Len(s) + 1})

-----------------------------------------------------------------------------
\* The four parser regexes, each of the shape
\*     lit1 [\d+] lit2 [\s+] <capture> term
\* where an empty term means a greedy capture to the end of the line and a
\* non-empty term means a lazy capture up to the first occurrence of term.

\* r'GPU \d+: (.*?) \(UUID:'
NVIDIA_MODEL_RE ==
    [lit1 |-> <<"G", "P", "U", " ">>, digits |-> TRUE, lit2 |-> <<":", " ">>,
     spaces |-> FALSE, term |-> <<" ", "(", "U", "U", "I", "D", ":">>]

\* r':\s+(.*)'
NVIDIA_VBIOS_RE ==
    [lit1 |-> <<":">>, digits |-> FALSE, lit2 |-> <<>>,
     spaces |-> TRUE, term |-> <<>>]

\* r'Card #\d+:\s+(.*)'
AMD_MODEL_RE ==
    [lit1 |-> <<"C", "a", "r", "d", " ", "#">>, digits |-> TRUE, lit2 |-> <<":">>,
     spaces |-> TRUE, term |-> <<>>]

\* r'VBIOS version:\s+(.*)'
AMD_VBIOS_RE ==
    [lit1 |-> <<"V", "B", "I", "O", "S", " ", "v", "e", "r", "s", "i", "o", "n", ":">>,
     digits |-> FALSE, lit2 |-> <<>>, spaces |-> TRUE, term |-> <<>>]

NoMatch == [matched |-> FALSE, group1 |-> <<>>]

\* The capture, from position n, of a match whose terminator starts at one
\* of the positions ends: the lazy capture stops at the first of them.
MatchTerm(line, n, ends) ==
    IF ends = {} THEN NoMatch
    ELSE [matched |-> TRUE, group1 |-> Slice(line, n, Least(ends) - 1)]

\* After lit2 ended before position m and the blanks before position n.
MatchCapture(re, line, m, n) ==
    IF re.spaces /\ n = m THEN NoMatch
    ELSE IF re.term = <<>>
         THEN [matched |-> TRUE, group1 |-> Slice(line, n, Len(line))]
    ELSE MatchTerm(line, n, {e \in n..Len(line) : HasAt(line, e, re.term)})

\* After the digits that started at position j ended before position k.
MatchLit2(re, line, j, k) ==
    IF (re.digits /\ k = j) \/ ~HasAt(line, k, re.lit2) THEN NoMatch
    ELSE MatchCapture(re, line, k + Len(re.lit2),
                      IF re.spaces
                      THEN RunEnd(line, k + Len(re.lit2), Whitespace)
                      ELSE k + Len(re.lit2))

\* The match of regex re anchored at position i of line, if any.
MatchAt(re, line, i) ==
    IF ~HasAt(line, i, re.lit1) THEN NoMatch
    ELSE MatchLit2(re, line, i + Len(re.lit1),
                   IF re.digits THEN RunEnd(line, i + Len(re.lit1), Digits)
                                ELSE i + Len(re.lit1))

\* The match at the leftmost of the positions starts.
FirstMatch(re, line, starts) ==
    IF starts = {} THEN NoMatch ELSE MatchAt(re, line, Least(starts))

\* re.search(parser_regex, line): the leftmost match.
ReSearch(re, line) ==
    FirstMatch(re, line, {i \in 1..Len(line) : MatchAt(re, line, i).matched})

-----------------------------------------------------------------------------
(* Values                                                                  *)

\* Python's None where the program holds an optional tag string.
None == "<None>"

\* str(x) of an optional tag string.
Str(x) == IF x = None THEN "None" ELSE x

\* An entry of report_data["checks_performed"].
CheckResult(component, status, expected, actual, notes) ==
    [component |-> component, status |-> status, expected |-> expected,
     actual |-> actual, notes |-> notes]

\* The text "Parse Error" and the default notes "" of a per-line entry.
PARSE_ERROR == <<"P", "a", "r", "s", "e", " ", "E", "r", "r", "o", "r">>
NO_NOTES == <<>>

\* GpuComponent with a one-based index.
GpuComponent_OneBased(i, check_name) ==
    "GPU_" \o ToString(i + 1) \o "_" \o check_name

\* f"GPU_{i}_{check_name}"
GpuComponent(i, check_name) == "GPU_" \o ToString(i) \o "_" \o check_name

\* current_value in expected_value, for a list expected_value.
InList(current_value, expected_value) ==
    \E k \in 1..Len(expected_value) : expected_value[k] = current_value

-----------------------------------------------------------------------------
(* GpuValidator._validate_list_of_items                                    *)

\* The outcome of one line: the CheckResult appended, the amount added to
\* self.failures and the [FAIL] messages logged.
Outcome(check, failures, log) ==
    [check |-> check, failures |-> failures, log |-> log]

\* Compared with the VBIOS value compared to the first golden value only.
Compared_FirstOnly(i, check_name, expected_value, is_vbios, current_value) ==
    IF (IF is_vbios THEN current_value = expected_value[1]
                    ELSE current_value = expected_value)
    THEN Outcome(CheckResult(GpuComponent(i, check_name), "PASS",
                             expected_value, current_value, NO_NOTES),
                 0, <<>>)
    ELSE Outcome(CheckResult(GpuComponent(i, check_name), "FAIL",
                             expected_value, current_value, NO_NOTES),
                 1, <<"  [FAIL] GPU " \o ToString(i) \o " " \o check_name
                         \o " Mismatch.">>)

\* Compared without self.failures += 1 in the mismatch branch.
Compared_NoCount(i, check_name, expected_value, is_vbios, current_value) ==
    IF (IF is_vbios THEN InList(current_value, expected_value)
                    ELSE current_value = expected_value)
    THEN Outcome(CheckResult(GpuComponent(i, check_name), "PASS",
                             expected_value, current_value, NO_NOTES),
                 0, <<>>)
    ELSE Outcome(CheckResult(GpuComponent(i, check_name), "FAIL",
                             expected_value, current_value, NO_NOTES),
                 0, <<>>)

\* The branch of the loop body for a line the regex matched, with
\* current_value = match.group(1).strip().
Compared(i, check_name, expected_value, is_vbios, current_value) ==
    IF (IF is_vbios THEN InList(current_value, expected_value)
                    ELSE current_value = expected_value)
    THEN Outcome(CheckResult(GpuComponent(i, check_name), "PASS",
                             expected_value, current_value, NO_NOTES),
                 0, <<>>)
    ELSE Outcome(CheckResult(GpuComponent(i, check_name), "FAIL",
                             expected_value, current_value, NO_NOTES),
                 1, <<"  [FAIL] GPU " \o ToString(i) \o " " \o check_name
                         \o " Mismatch.">>)

\* Matched without self.failures += 1 in the parse-error branch.
Matched_ParseErrorNotCounted(i, line, check_name, expected_value, is_vbios, match) ==
    IF match.matched
    THEN Compared(i, check_name, expected_value, is_vbios, Strip(match.group1))
    ELSE Outcome(CheckResult(GpuComponent(i, check_name), "FAIL",
                             expected_value, PARSE_ERROR, line),
                 0, <<"  [FAIL] Could not parse " \o check_name
                         \o " string for GPU " \o ToString(i)>>)

\* Matched without the .strip() of the extracted value.
Matched_NoStrip(i, line, check_name, expected_value, is_vbios, match) ==
    IF match.matched
    THEN Compared(i, check_name, expected_value, is_vbios, match.group1)
    ELSE Outcome(CheckResult(GpuComponent(i, check_name), "FAIL",
                             expected_value, PARSE_ERROR, line),
                 1, <<"  [FAIL] Could not parse " \o check_name
                         \o " string for GPU " \o ToString(i)>>)

\* The loop body after match = re.search(parser_regex, line).
Matched(i, line, check_name, expected_value, is_vbios, match) ==
    IF match.matched
    THEN Compared(i, check_name, expected_value, is_vbios, Strip(match.group1))
    ELSE Outcome(CheckResult(GpuComponent(i, check_name), "FAIL",
                             expected_value, PARSE_ERROR, line),
                 1, <<"  [FAIL] Could not parse " \o check_name
                         \o " string for GPU " \o ToString(i)>>)

\* The body of the for loop for the line at zero-based index i.
ValidateItem(i, line, check_name, expected_value, parser_regex, is_vbios) ==
    Matched(i, line, check_name, expected_value, is_vbios,
            ReSearch(parser_regex, line))

\* The effect of the loop so far, after one more line with outcome r.
Accumulate(acc, r) ==
    [checks |-> Append(acc.checks, r.check),
     failures |-> acc.failures + r.failures,
     log |-> acc.log \o r.log]

\* for i, line in enumerate(items), from index i on; acc holds the checks
\* appended, the failures counted and the messages logged so far.
RECURSIVE ValidateLoop(_, _, _, _, _, _, _)
ValidateLoop(items, i, check_name, expected_value, parser_regex, is_vbios, acc) ==
    IF i >= Len(items) THEN acc
    ELSE ValidateLoop(items, i + 1, check_name, expected_value, parser_regex,
                      is_vbios,
                      Accumulate(acc, ValidateItem(i, items[i + 1], check_name,
                                     expected_value, parser_regex, is_vbios)))

\* ValidateListOfItems without the guard for an empty list.
ValidateListOfItems_NoGuard(items, check_name, expected_value, parser_regex, is_vbios) ==
    ValidateLoop(items, 0, check_name, expected_value, parser_regex,
                 is_vbios, [checks |-> <<>>, failures |-> 0, log |-> <<>>])

\* The effect of one call: the checks appended to the report, in order, the
\* increase of self.failures and the [FAIL] messages logged.
ValidateListOfItems(items, check_name, expected_value, parser_regex, is_vbios) ==
    IF items = <<>>
    THEN [checks |-> <<>>, failures |-> 1,
          log |-> <<"  [FAIL] Command returned no items for " \o check_name \o ".">>]
    ELSE ValidateLoop(items, 0, check_name, expected_value, parser_regex,
                      is_vbios, [checks |-> <<>>, failures |-> 0, log |-> <<>>])

-----------------------------------------------------------------------------
(* The host and the baseline document the run may meet                     *)

\* The most lines a vendor tool prints.
MaxLines == 2

\* System model identifiers as dmidecode prints them.
SYS_A == <<"S", "1">>
SYS_B == <<"S", "2">>

\* Golden values of the baseline.
MODEL_X == <<"H", "1">>
VBIOS_1 == <<"9", "6">>
VBIOS_2 == <<"9", "5">>

\* The result of a child process: its exit status and its stdout.
Proc(ok, stdout) == [ok |-> ok, stdout |-> stdout]

\* Every stdout of at most MaxLines lines drawn from the catalogue, each
\* line ended by a newline.
Stdouts(catalogue) ==
    {JoinLines(lines) \o (IF lines = <<>> THEN <<>> ELSE <<"\n">>) :
        lines \in UNION {[1..n -> catalogue] : n \in 0..MaxLines}}

\* Every result of a command: it fails, or it prints some stdout.
Results(catalogue) ==
    {Proc(FALSE, <<>>)} \cup {Proc(TRUE, out) : out \in Stdouts(catalogue)}

\* dmidecode -s system-product-name | tr -d ' '
DmidecodeResults ==
    {Proc(FALSE, <<>>), Proc(TRUE, <<"\n">>),
     Proc(TRUE, SYS_A \o <<"\n">>), Proc(TRUE, SYS_B \o <<"\n">>)}

\* Lines of nvidia-smi -L: the golden model (with padding), another model,
\* a line without the UUID marker, a blank line.
NvidiaModelLines ==
    {<<"G", "P", "U", " ", "0", ":", " ", "H", "1", " ", " ", "(", "U", "U", "I", "D", ":">>,
     <<"G", "P", "U", " ", "1", ":", " ", "H", "2", " ", "(", "U", "U", "I", "D", ":">>,
     <<"G", "P", "U", " ", "0", ":", " ", "H", "1">>,
     <<>>}

\* Lines of nvidia-smi -q | grep 'VBIOS Version': a golden value (padded),
\* the other golden value after a colon that no blank follows, a value
\* outside the list, a line without a colon.
NvidiaVbiosLines ==
    {<<" ", "V", " ", ":", " ", " ", "9", "6", " ">>,
     <<"V", ":", "x", ":", " ", "9", "5">>,
     <<"V", ":", " ", "9", "9">>,
     <<"V", " ", "9", "6">>}

\* Lines of rocm-smi --showproductname.
AmdModelLines ==
    {<<"C", "a", "r", "d", " ", "#", "0", ":", " ", "H", "1">>,
     <<"C", "a", "r", "d", " ", "#", "1", ":", " ", "H", "2">>,
     <<"C", "a", "r", "d", " ", "0", ":", " ", "H", "1">>,
     <<" ">>}

\* Lines of rocm-smi --showvbios.
AmdVbiosLines ==
    {<<"V", "B", "I", "O", "S", " ", "v", "e", "r", "s", "i", "o", "n", ":", " ", "9", "6">>,
     <<"V", "B", "I", "O", "S", " ", "v", "e", "r", "s", "i", "o", "n", ":", " ", "9", "9">>,
     <<"V", "B", "I", "O", "S", ":", " ", "9", "6">>,
     <<" ">>}

\* The vendor tools shutil.which is asked for.
ToolNames == {"nvidia-smi", "rocm-smi", "level-zero-ctl"}

\* Values of expected_gpu_vendor in a baseline.
DeclaredVendors == {"nvidia", "amd", "intel", "matrox", ""}

VbiosLists == {<<VBIOS_1>>, <<VBIOS_1, VBIOS_2>>, <<VBIOS_2, VBIOS_1>>}

\* gpu_spec sections: empty, one key missing, both keys present.
GpuSpecs ==
    {<<>>} \cup {[expected_model |-> MODEL_X]}
           \cup {[expected_vbios_list |-> l] : l \in VbiosLists}
           \cup {[expected_model |-> MODEL_X, expected_vbios_list |-> l] :
                    l \in VbiosLists}

\* Entries of the baseline: either key may be missing.
ModelSpecs ==
    {[expected_gpu_vendor |-> v, gpu_spec |-> g] :
        v \in DeclaredVendors, g \in GpuSpecs}
      \cup {[expected_gpu_vendor |-> v] : v \in DeclaredVendors}
      \cup {[gpu_spec |-> g] : g \in GpuSpecs}

\* What yaml.safe_load of the baseline file gives: an exception (missing or
\* unparsable file), None (empty file), or a mapping.
ConfigFiles ==
    {[kind |-> "error", value |-> <<>>], [kind |-> "none", value |-> <<>>],
     [kind |-> "loaded", value |-> <<>>]}
      \cup {[kind |-> "loaded", value |-> [k \in {SYS_A} |-> ms]] :
               ms \in ModelSpecs}

-----------------------------------------------------------------------------
(* The run                                                                 *)

VARIABLES
    pc,                \* the statement of main() the run is at
    report_data,       \* the global report dictionary
    system_model,      \* main: what get_system_model returned
    config,            \* main: what load_config returned
    failures,          \* run_validation's failures, then main's
    expected_vendor,   \* run_validation: the declared vendor
    tool_found,        \* run_validation: the detected vendor
    validator,         \* run_validation: the validator object
    models_output,     \* _check_models: what run_command returned
    vbios_output,      \* _check_vbios: what run_command returned
    commands,          \* the commands run_command has executed, in order
    which_log,         \* the tools shutil.which was asked for, in order
    fail_log,          \* the messages of log_msg(..., is_error=True), in order
    json_report,       \* the report file: the documents written to it
    write_report_calls,\* how often write_report has set the status
    validate_result,   \* run_validation: what validator.validate() returned
    host,              \* the host: what it answered to each query so far
    run,               \* how often main() was called in this interpreter
    exit_code          \* the code given to sys.exit, -1 while running

vars == <<pc, report_data, system_model, config, failures, expected_vendor,
          tool_found, validator, models_output, vbios_output, commands,
          which_log, fail_log, json_report, write_report_calls,
          validate_result, host, run, exit_code>>

\* The commands of the program.
CMD_DMIDECODE == "dmidecode -s system-product-name | tr -d ' '"
CMD_NVIDIA_MODEL == "nvidia-smi -L"
CMD_NVIDIA_VBIOS == "nvidia-smi -q | grep 'VBIOS Version'"
CMD_AMD_MODEL == "rocm-smi --showproductname"
CMD_AMD_VBIOS == "rocm-smi --showvbios"

\* run_command: the stripped stdout, or None when the command fails.
RunCommand(proc) ==
    IF proc.ok THEN [none |-> FALSE, text |-> Strip(proc.stdout)]
               ELSE [none |-> TRUE, text |-> <<>>]

\* run_command: what it logs when the command fails.
RunCommandLog(proc, command) ==
    IF proc.ok THEN <<>>
    ELSE <<"Command failed: '" \o command \o "'", "Stderr: <stderr>">>

\* add_check_to_report keeping only the newest entry.
AddCheckToReport_Replace(report, component, status, expected, actual, notes) ==
    [report EXCEPT !.checks_performed =
        <<CheckResult(component, status, expected, actual, notes)>>]

\* add_check_to_report, as the new value of report_data.
AddCheckToReport(report, component, status, expected, actual, notes) ==
    [report EXCEPT !.checks_performed =
        Append(@, CheckResult(component, status, expected, actual, notes))]

\* AddChecks putting the new entries before the old ones.
AddChecks_Prepend(report, checks) ==
    [report EXCEPT !.checks_performed = checks \o @]

\* The add_check_to_report calls of one _validate_list_of_items call.
AddChecks(report, checks) ==
    [report EXCEPT !.checks_performed = @ \o checks]

\* The validator objects; gpu_count is AmdValidator's.
Validator(vendor_name, gpu_spec) ==
    [vendor_name |-> vendor_name, spec |-> gpu_spec, failures |-> 0,
     gpu_count |-> 0]

NoValidator == Validator(None, <<>>)

\* GetValidator with the NVIDIA validator as the default of the else branch.
GetValidator_Default(vendor, gpu_spec) ==
    IF vendor = "amd" THEN Validator("AMD", gpu_spec)
    ELSE IF vendor = "intel" THEN Validator("Intel", gpu_spec)
    ELSE Validator("NVIDIA", gpu_spec)

\* get_validator not knowing the intel tag.
GetValidator_NoIntel(vendor, gpu_spec) ==
    IF vendor = "nvidia" THEN Validator("NVIDIA", gpu_spec)
    ELSE IF vendor = "amd" THEN Validator("AMD", gpu_spec)
    ELSE NoValidator

\* get_validator
GetValidator(vendor, gpu_spec) ==
    IF vendor = "nvidia" THEN Validator("NVIDIA", gpu_spec)
    ELSE IF vendor = "amd" THEN Validator("AMD", gpu_spec)
    ELSE IF vendor = "intel" THEN Validator("Intel", gpu_spec)
    ELSE NoValidator

\* vendor_name.upper()
Upper(vendor_name) == IF vendor_name = "Intel" THEN "INTEL" ELSE vendor_name

\* ToolFound looking for the AMD tool before the NVIDIA tool.
ToolFound_AmdFirst(installed) ==
    IF "rocm-smi" \in installed THEN "amd"
    ELSE IF "nvidia-smi" \in installed THEN "nvidia"
    ELSE IF "level-zero-ctl" \in installed THEN "intel"
    ELSE None

\* The first tool of the priority order that is installed.
ToolFound(installed) ==
    IF "nvidia-smi" \in installed THEN "nvidia"
    ELSE IF "rocm-smi" \in installed THEN "amd"
    ELSE IF "level-zero-ctl" \in installed THEN "intel"
    ELSE None

\* The shutil.which calls made to find it.
WhichCalls(installed) ==
    IF "nvidia-smi" \in installed THEN <<"nvidia-smi">>
    ELSE IF "rocm-smi" \in installed THEN <<"nvidia-smi", "rocm-smi">>
    ELSE <<"nvidia-smi", "rocm-smi", "level-zero-ctl">>

\* The queries a run puts to the host: the three commands it may run, the
\* baseline file, the vendor tools and the report file.
Queries == {"dmidecode", "yaml", "which", "models", "vbios", "report"}

\* No query was put yet.
HostUnasked == [q \in Queries |-> [asked |-> FALSE, answer |-> None]]

\* The host answers the query: as before when it was asked before (the
\* host state does not change), and the answer is what the host holds.
Asks(q, answer) ==
    /\ host[q].asked => answer = host[q].answer
    /\ host' = [host EXCEPT ![q] = [asked |-> TRUE, answer |-> answer]]

\* What write_report meets when it opens the report file, and the fallback.
ReportAnswer(outcome, fallback) ==
    IF outcome = "permission_error" THEN outcome \o "/" \o fallback ELSE outcome

Init ==
    /\ pc = "get_system_model"
    /\ report_data = [report_id |-> "validation_report_<now>",
                      status |-> "FAIL",
                      system_model |-> <<"U", "n", "k", "n", "o", "w", "n">>,
                      checks_performed |-> <<>>]
    /\ system_model = [none |-> TRUE, text |-> <<>>]
    /\ config = <<>>
    /\ failures = 0
    /\ expected_vendor = None
    /\ tool_found = None
    /\ validator = NoValidator
    /\ models_output = [none |-> TRUE, text |-> <<>>]
    /\ vbios_output = [none |-> TRUE, text |-> <<>>]
    /\ commands = <<>>
    /\ which_log = <<>>
    /\ fail_log = <<>>
    /\ json_report = <<>>
    /\ write_report_calls = 0
    /\ validate_result = [returned |-> FALSE, value |-> FALSE]
    /\ host = HostUnasked
    /\ run = 1
    /\ exit_code = -1

\* sys.exit(code)
SysExit(code) ==
    /\ pc' = "exited"
    /\ exit_code' = code

\* run_validation returns n to main, which goes on to write_report.
Return(n) ==
    /\ failures' = n
    /\ pc' = "write_report"

\* main: system_model = get_system_model(); exit 1 when it is empty.
GetSystemModel ==
    /\ pc = "get_system_model"
    /\ \E proc \in DmidecodeResults :
        LET current_model == RunCommand(proc)
        IN  /\ Asks("dmidecode", current_model)
            /\ commands' = Append(commands, CMD_DMIDECODE)
            /\ IF current_model.none \/ current_model.text = <<>>
               THEN /\ fail_log' = fail_log \o RunCommandLog(proc, CMD_DMIDECODE)
                         \o <<"Cannot read system model name (dmidecode failed or returned empty).",
                              "--> Did you forget to run with 'sudo'?">>
                    /\ report_data' = AddCheckToReport(report_data, "System_Model",
                                          "FAIL", "Any Model", "Read Error", "")
                    /\ system_model' = [none |-> TRUE, text |-> <<>>]
                    /\ SysExit(1)
               ELSE /\ report_data' = [report_data EXCEPT
                                          !.system_model = current_model.text]
                    /\ system_model' = current_model
                    /\ pc' = "load_config"
                    /\ UNCHANGED <<fail_log, exit_code>>
    /\ UNCHANGED <<config, failures, expected_vendor, tool_found, validator,
                   models_output, vbios_output, which_log, json_report,
                   write_report_calls>>
    /\ UNCHANGED <<validate_result, run>>

\* main: config = load_config(CONFIG_FILE_PATH); exit 1 when it is falsy.
LoadConfig ==
    /\ pc = "load_config"
    /\ \E file \in ConfigFiles :
        /\ Asks("yaml", file)
        /\ IF file.kind = "error"
           THEN /\ fail_log' = Append(fail_log, "Failed to load Golden YAML: <e>")
                /\ report_data' = AddCheckToReport(report_data, "YAML_Load", "FAIL",
                                      "./golden_config.yml", "Load Error", "<e>")
                /\ UNCHANGED config
                /\ SysExit(1)
           ELSE IF file.kind = "none"
           THEN /\ fail_log' = Append(fail_log,
                                   "Golden YAML file is empty or malformed: ./golden_config.yml")
                /\ report_data' = AddCheckToReport(report_data, "YAML_Parse", "FAIL",
                                      "Valid YAML data", "File is empty or invalid", "")
                /\ UNCHANGED config
                /\ SysExit(1)
           ELSE IF DOMAIN file.value = {}
           THEN /\ UNCHANGED <<report_data, config, fail_log>>
                /\ SysExit(1)
           ELSE /\ config' = file.value
                /\ pc' = "run_validation"
                /\ UNCHANGED <<report_data, fail_log, exit_code>>
    /\ UNCHANGED <<system_model, failures, expected_vendor, tool_found,
                   validator, models_output, vbios_output, commands, which_log,
                   json_report, write_report_calls>>
    /\ UNCHANGED <<validate_result, run>>

\* run_validation: failures = 0; the system model must be a key of config.
BaselineLookup ==
    /\ pc = "run_validation"
    /\ IF system_model.text \notin DOMAIN config
       THEN /\ fail_log' = Append(fail_log,
                   "System model '<current_model>' is not defined in ./golden_config.yml")
            /\ report_data' = AddCheckToReport(report_data, "YAML_Spec", "FAIL",
                                  "Spec for <current_model>", "Not Found", "")
            /\ Return(1)
       ELSE /\ failures' = 0
            /\ pc' = "vendor_declaration"
            /\ UNCHANGED <<report_data, fail_log>>
    /\ UNCHANGED <<system_model, config, expected_vendor, tool_found, validator,
                   models_output, vbios_output, commands, which_log, json_report,
                   write_report_calls, exit_code>>
    /\ UNCHANGED <<validate_result, host, run>>

\* dict.get(key), for a key whose values are tag strings.
GetTag(dict, key) == IF key \in DOMAIN dict THEN dict[key] ELSE None

\* VendorDeclaration without the return: with no vendor declared the run
\* goes on to probe the vendor tools.
VendorDeclaration_NoStop ==
    /\ pc = "vendor_declaration"
    /\ LET model_spec == config[system_model.text]
           vendor == GetTag(model_spec, "expected_gpu_vendor")
       IN  /\ expected_vendor' = vendor
           /\ IF vendor = None \/ vendor = ""
              THEN /\ fail_log' = Append(fail_log,
                          "'expected_gpu_vendor' not defined for '<current_model>' in YAML.")
                   /\ report_data' = AddCheckToReport(report_data, "GPU_Vendor",
                                         "FAIL", "Vendor Spec", "Not Defined in YAML", "")
                   /\ pc' = "vendor_presence"
                   /\ UNCHANGED failures
              ELSE /\ pc' = "vendor_presence"
                   /\ UNCHANGED <<report_data, failures, fail_log>>
    /\ UNCHANGED <<system_model, config, tool_found, validator, models_output,
                   vbios_output, commands, which_log, json_report,
                   write_report_calls, exit_code>>
    /\ UNCHANGED <<validate_result, host, run>>

\* run_validation: expected_vendor = model_spec.get('expected_gpu_vendor').
VendorDeclaration ==
    /\ pc = "vendor_declaration"
    /\ LET model_spec == config[system_model.text]
           vendor == GetTag(model_spec, "expected_gpu_vendor")
       IN  /\ expected_vendor' = vendor
           /\ IF vendor = None \/ vendor = ""
              THEN /\ fail_log' = Append(fail_log,
                          "'expected_gpu_vendor' not defined for '<current_model>' in YAML.")
                   /\ report_data' = AddCheckToReport(report_data, "GPU_Vendor",
                                         "FAIL", "Vendor Spec", "Not Defined in YAML", "")
                   /\ Return(1)
              ELSE /\ pc' = "vendor_presence"
                   /\ UNCHANGED <<report_data, failures, fail_log>>
    /\ UNCHANGED <<system_model, config, tool_found, validator, models_output,
                   vbios_output, commands, which_log, json_report,
                   write_report_calls, exit_code>>
    /\ UNCHANGED <<validate_result, host, run>>

\* VendorPresenceCheck without the else: after a vendor mismatch the run
\* goes on to the component validation.
VendorPresenceCheck_NoStop ==
    /\ pc = "vendor_presence"
    /\ \E installed \in SUBSET ToolNames :
        LET found == ToolFound(installed)
        IN  /\ Asks("which", found)
            /\ tool_found' = found
            /\ which_log' = which_log \o WhichCalls(installed)
            /\ IF found # expected_vendor
               THEN /\ fail_log' = Append(fail_log, "BOM validation FAILED!")
                    /\ report_data' = AddCheckToReport(report_data, "GPU_Vendor",
                                          "FAIL", expected_vendor, Str(found), "")
                    /\ failures' = failures + 1
               ELSE /\ report_data' = AddCheckToReport(report_data, "GPU_Vendor",
                                          "PASS", expected_vendor, found, "")
                    /\ UNCHANGED <<failures, fail_log>>
            /\ pc' = "component_validation"
    /\ UNCHANGED <<system_model, config, expected_vendor, validator,
                   models_output, vbios_output, commands, json_report,
                   write_report_calls, exit_code>>
    /\ UNCHANGED <<validate_result, run>>

\* run_validation: probe the vendor tools and compare with the declaration.
VendorPresenceCheck ==
    /\ pc = "vendor_presence"
    /\ \E installed \in SUBSET ToolNames :
        LET found == ToolFound(installed)
        IN  /\ Asks("which", found)
            /\ tool_found' = found
            /\ which_log' = which_log \o WhichCalls(installed)
            /\ IF found # expected_vendor
               THEN /\ fail_log' = Append(fail_log, "BOM validation FAILED! Expected vendor '"
                           \o expected_vendor \o "', but found '" \o Str(found)
                           \o "' tool (or tool not found).")
                    /\ report_data' = AddCheckToReport(report_data, "GPU_Vendor",
                                          "FAIL", expected_vendor, Str(found), "")
                    /\ Return(failures + 1)
               ELSE /\ report_data' = AddCheckToReport(report_data, "GPU_Vendor",
                                          "PASS", expected_vendor, found, "")
                    /\ pc' = "component_validation"
                    /\ UNCHANGED <<failures, fail_log>>
    /\ UNCHANGED <<system_model, config, expected_vendor, validator,
                   models_output, vbios_output, commands, json_report,
                   write_report_calls, exit_code>>
    /\ UNCHANGED <<validate_result, run>>

\* run_validation: gpu_spec = model_spec.get('gpu_spec'); get_validator.
ComponentValidation ==
    /\ pc = "component_validation"
    /\ LET model_spec == config[system_model.text]
       IN  IF "gpu_spec" \notin DOMAIN model_spec \/ DOMAIN model_spec.gpu_spec = {}
           THEN /\ fail_log' = Append(fail_log,
                       "'gpu_spec' not defined for '<current_model>' in YAML.")
                /\ report_data' = AddCheckToReport(report_data, "GPU_Spec", "FAIL",
                                      "Spec to exist", "Not Defined in YAML", "")
                /\ Return(failures + 1)
                /\ UNCHANGED validator
           ELSE LET v == GetValidator(expected_vendor, model_spec.gpu_spec)
                IN  /\ validator' = v
                    /\ UNCHANGED report_data
                    /\ IF v = NoValidator
                       THEN /\ fail_log' = Append(fail_log,
                                   "No validator defined for vendor: " \o expected_vendor)
                            /\ Return(failures)
                       ELSE /\ pc' = "validate"
                            /\ UNCHANGED <<failures, fail_log>>
    /\ UNCHANGED <<system_model, config, expected_vendor, tool_found,
                   models_output, vbios_output, commands, which_log, json_report,
                   write_report_calls, host, run, exit_code>>
    /\ UNCHANGED validate_result

\* The key whose lookup raises KeyError in validate(), "" when both are there.
MissingKey(spec) ==
    IF "expected_model" \notin DOMAIN spec THEN "'expected_model'"
    ELSE IF "expected_vbios_list" \notin DOMAIN spec THEN "'expected_vbios_list'"
    ELSE ""

\* ValidateReturns without the addition of validator.failures.
ValidateReturns_NotAdded(result, v) ==
    /\ validate_result' = [returned |-> TRUE, value |-> result]
    /\ Return(failures)

\* validate() returns result to run_validation, which adds
\* validator.failures to its own failures when result is false, and returns.
ValidateReturns(result, v) ==
    /\ validate_result' = [returned |-> TRUE, value |-> result]
    /\ Return(IF result THEN failures ELSE failures + v.failures)

\* Validate without the return of the except branch: after the FAIL entry
\* the run goes on to the model check.
Validate_NoAbort ==
    /\ pc = "validate"
    /\ LET key == MissingKey(validator.spec)
       IN  IF key # ""
           THEN /\ fail_log' = Append(fail_log, "Missing key " \o key
                       \o " in [gpu_spec][<vendor>] section of YAML")
                /\ report_data' = AddCheckToReport(report_data,
                                      Upper(validator.vendor_name) \o "_CONFIG",
                                      "FAIL", "Config to be present", "Missing keys", key)
                /\ validator' = [validator EXCEPT !.failures = @ + 1]
                /\ pc' = "check_models"
                /\ UNCHANGED <<failures, validate_result>>
           ELSE /\ pc' = "check_models"
                /\ UNCHANGED <<report_data, validator, failures, fail_log,
                               validate_result>>
    /\ UNCHANGED <<system_model, config, expected_vendor, tool_found,
                   models_output, vbios_output, commands, which_log, json_report,
                   write_report_calls, host, run, exit_code>>

\* GpuValidator.validate: read both keys of the spec.
Validate ==
    /\ pc = "validate"
    /\ LET key == MissingKey(validator.spec)
       IN  IF key # ""
           THEN /\ fail_log' = Append(fail_log, "Missing key " \o key
                       \o " in [gpu_spec][<vendor>] section of YAML")
                /\ report_data' = AddCheckToReport(report_data,
                                      Upper(validator.vendor_name) \o "_CONFIG",
                                      "FAIL", "Config to be present", "Missing keys", key)
                /\ validator' = [validator EXCEPT !.failures = @ + 1]
                /\ ValidateReturns(FALSE, validator')
           ELSE /\ pc' = "check_models"
                /\ UNCHANGED <<report_data, validator, failures, fail_log,
                               validate_result>>
    /\ UNCHANGED <<system_model, config, expected_vendor, tool_found,
                   models_output, vbios_output, commands, which_log, json_report,
                   write_report_calls, host, run, exit_code>>

-----------------------------------------------------------------------------
(* The vendor validators.  Each method is given as its effect: the new    *)
(* validator object (self), the checks it appends to the report and the    *)
(* messages it logs with is_error, for the value run_command returned.     *)

\* The effect of a step that appends checks, adds r.failures to
\* self.failures and logs r.log.
Counted(self, r) ==
    [self |-> [self EXCEPT !.failures = @ + r.failures], checks |-> r.checks,
     log |-> r.log]

\* A step that counts one failure.
OneFailure(checks, log) == [checks |-> checks, failures |-> 1, log |-> log]

\* NvidiaValidator._check_models, given models_output.
NvidiaModels(self, output) ==
    IF output.none THEN Counted(self, OneFailure(<<>>, <<>>))
    ELSE Counted(self, ValidateListOfItems(Split(output.text), "Model",
                           self.spec.expected_model, NVIDIA_MODEL_RE, FALSE))

\* NvidiaValidator._check_vbios, given vbios_output.
NvidiaVbios(self, output) ==
    IF output.none THEN Counted(self, OneFailure(<<>>, <<>>))
    ELSE Counted(self, ValidateListOfItems(Split(output.text), "VBIOS",
                           self.spec.expected_vbios_list, NVIDIA_VBIOS_RE, TRUE))

\* AmdValidator._check_models after gpu_models was computed.
AmdModelsList(self, gpu_models) ==
    Counted([self EXCEPT !.gpu_count = Len(gpu_models)],
            ValidateListOfItems(gpu_models, "Model", self.spec.expected_model,
                                AMD_MODEL_RE, FALSE))

\* AmdValidator._check_models, given models_output.
AmdModels(self, output) ==
    IF output.none
    THEN Counted(self, OneFailure(<<CheckResult("ROCM_SMI_MODEL", "FAIL",
                                       "Command to run", "Command failed", "")>>,
                                  <<>>))
    ELSE AmdModelsList(self, NonBlank(Split(output.text)))

\* AmdVbiosList doing nothing when no GPU was discovered.
AmdVbiosList_SkipWhenZero(self, vbios_versions) ==
    IF self.gpu_count = 0
    THEN [self |-> self, checks |-> <<>>, log |-> <<>>]
    ELSE IF Len(vbios_versions) # self.gpu_count
    THEN Counted(self, OneFailure(<<>>, <<"  [FAIL] VBIOS count mismatch">>))
    ELSE Counted(self, ValidateListOfItems(vbios_versions, "VBIOS",
                           self.spec.expected_vbios_list, AMD_VBIOS_RE, TRUE))

\* AmdVbiosList without the comparison of the counts.
AmdVbiosList_NoCrossCheck(self, vbios_versions) ==
    Counted(self, ValidateListOfItems(vbios_versions, "VBIOS",
                      self.spec.expected_vbios_list, AMD_VBIOS_RE, TRUE))

\* AmdValidator._check_vbios after vbios_versions was computed.
AmdVbiosList(self, vbios_versions) ==
    IF Len(vbios_versions) # self.gpu_count
    THEN Counted(self, OneFailure(<<>>,
                     <<"  [FAIL] VBIOS count (" \o ToString(Len(vbios_versions))
                          \o ") does not match GPU count ("
                          \o ToString(self.gpu_count) \o ").">>))
    ELSE Counted(self, ValidateListOfItems(vbios_versions, "VBIOS",
                           self.spec.expected_vbios_list, AMD_VBIOS_RE, TRUE))

\* AmdValidator._check_vbios, given vbios_output.
AmdVbios(self, output) ==
    IF output.none
    THEN Counted(self, OneFailure(<<CheckResult("ROCM_SMI_VBIOS", "FAIL",
                                       "Command to run", "Command failed", "")>>,
                                  <<>>))
    ELSE AmdVbiosList(self, NonBlank(Split(output.text)))

\* IntelModels without the add_check_to_report call.
IntelModels_NoEntry(self) == [self |-> self, checks |-> <<>>, log |-> <<>>]

\* IntelValidator._check_models
IntelModels(self) ==
    [self |-> self,
     checks |-> <<CheckResult("Intel_Check", "SKIP", "N/A", "N/A", "Not Implemented")>>,
     log |-> <<>>]

\* IntelVbios counting a failure.
IntelVbios_Counted(self) == Counted(self, OneFailure(<<>>, <<>>))

\* IntelValidator._check_vbios
IntelVbios(self) == [self |-> self, checks |-> <<>>, log |-> <<>>]

\* What a _check_models or _check_vbios step leaves alone.
CheckFrame ==
    UNCHANGED <<system_model, config, failures, expected_vendor, tool_found,
                which_log, json_report, write_report_calls, validate_result,
                run, exit_code>>

\* The effect of a method on the validator, the report and the log, after
\* what run_command logged.
Apply(command_log, effect) ==
    /\ validator' = effect.self
    /\ report_data' = AddChecks(report_data, effect.checks)
    /\ fail_log' = fail_log \o command_log \o effect.log

\* self._check_models(expected_model), for the NVIDIA validator.
NvidiaCheckModels ==
    /\ pc = "check_models"
    /\ validator.vendor_name = "NVIDIA"
    /\ \E proc \in Results(NvidiaModelLines) :
        /\ commands' = Append(commands, CMD_NVIDIA_MODEL)
        /\ Asks("models", RunCommand(proc))
        /\ models_output' = RunCommand(proc)
        /\ Apply(RunCommandLog(proc, CMD_NVIDIA_MODEL),
                 NvidiaModels(validator, RunCommand(proc)))
    /\ pc' = "check_vbios"
    /\ UNCHANGED vbios_output
    /\ CheckFrame

\* self._check_vbios(expected_vbios_list), for the NVIDIA validator.
NvidiaCheckVbios ==
    /\ pc = "check_vbios"
    /\ validator.vendor_name = "NVIDIA"
    /\ \E proc \in Results(NvidiaVbiosLines) :
        /\ commands' = Append(commands, CMD_NVIDIA_VBIOS)
        /\ Asks("vbios", RunCommand(proc))
        /\ vbios_output' = RunCommand(proc)
        /\ Apply(RunCommandLog(proc, CMD_NVIDIA_VBIOS),
                 NvidiaVbios(validator, RunCommand(proc)))
    /\ pc' = "validate_return"
    /\ UNCHANGED models_output
    /\ CheckFrame

\* self._check_models(expected_model), for the AMD validator.
AmdCheckModels ==
    /\ pc = "check_models"
    /\ validator.vendor_name = "AMD"
    /\ \E proc \in Results(AmdModelLines) :
        /\ commands' = Append(commands, CMD_AMD_MODEL)
        /\ Asks("models", RunCommand(proc))
        /\ models_output' = RunCommand(proc)
        /\ Apply(RunCommandLog(proc, CMD_AMD_MODEL),
                 AmdModels(validator, RunCommand(proc)))
    /\ pc' = "check_vbios"
    /\ UNCHANGED vbios_output
    /\ CheckFrame

\* self._check_vbios(expected_vbios_list), for the AMD validator.
AmdCheckVbios ==
    /\ pc = "check_vbios"
    /\ validator.vendor_name = "AMD"
    /\ \E proc \in Results(AmdVbiosLines) :
        /\ commands' = Append(commands, CMD_AMD_VBIOS)
        /\ Asks("vbios", RunCommand(proc))
        /\ vbios_output' = RunCommand(proc)
        /\ Apply(RunCommandLog(proc, CMD_AMD_VBIOS),
                 AmdVbios(validator, RunCommand(proc)))
    /\ pc' = "validate_return"
    /\ UNCHANGED models_output
    /\ CheckFrame

\* self._check_models(expected_model), for the Intel validator.
IntelCheckModels ==
    /\ pc = "check_models"
    /\ validator.vendor_name = "Intel"
    /\ Apply(<<>>, IntelModels(validator))
    /\ pc' = "check_vbios"
    /\ UNCHANGED <<models_output, vbios_output, commands, host>>
    /\ CheckFrame

\* self._check_vbios(expected_vbios_list), for the Intel validator.
IntelCheckVbios ==
    /\ pc = "check_vbios"
    /\ validator.vendor_name = "Intel"
    /\ Apply(<<>>, IntelVbios(validator))
    /\ pc' = "validate_return"
    /\ UNCHANGED <<models_output, vbios_output, commands, host>>
    /\ CheckFrame

\* GpuValidator.validate: return self.failures == 0, back in run_validation.
ValidateFinish ==
    /\ pc = "validate_return"
    /\ ValidateReturns(validator.failures = 0, validator)
    /\ UNCHANGED <<report_data, system_model, config, expected_vendor, tool_found,
                   validator, models_output, vbios_output, commands, which_log,
                   fail_log, json_report, write_report_calls, host, run,
                   exit_code>>

\* write_report: set the status, then write the file; a PermissionError
\* leads to a second attempt, any other error leaves the file unwritten.
WriteReport ==
    /\ pc = "write_report"
    /\ report_data' = [report_data EXCEPT
                          !.status = IF failures = 0 THEN "PASS" ELSE "FAIL"]
    /\ write_report_calls' = write_report_calls + 1
    /\ \E outcome \in {"written", "permission_error", "error"},
          fallback \in {"written", "error"} :
        /\ Asks("report", ReportAnswer(outcome, fallback))
        /\ IF outcome = "written"
           THEN /\ json_report' = Append(json_report, report_data')
                /\ UNCHANGED fail_log
           ELSE IF outcome = "permission_error"
           THEN IF fallback = "written"
                THEN /\ json_report' = Append(json_report, report_data')
                     /\ fail_log' = Append(fail_log,
                           "Permission denied writing to ./validation_report.json. Try running as root.")
                ELSE /\ UNCHANGED json_report
                     /\ fail_log' = fail_log \o
                           <<"Permission denied writing to ./validation_report.json. Try running as root.",
                             "Failed to write fallback report: <e>">>
           ELSE /\ UNCHANGED json_report
                /\ fail_log' = Append(fail_log, "Failed to write JSON report: <e>")
    /\ pc' = "print_final_result"
    /\ UNCHANGED <<system_model, config, failures, expected_vendor, tool_found,
                   validator, models_output, vbios_output, commands, which_log,
                   exit_code>>
    /\ UNCHANGED <<validate_result, run>>

\* PrintFinalResult with sys.exit(failures).
PrintFinalResult_ExitCount ==
    /\ pc = "print_final_result"
    /\ SysExit(failures)
    /\ UNCHANGED <<report_data, system_model, config, failures, expected_vendor,
                   tool_found, validator, models_output, vbios_output, commands,
                   which_log, fail_log, json_report, write_report_calls>>
    /\ UNCHANGED <<validate_result, host, run>>

\* print_final_result: sys.exit(0) when failures == 0, else sys.exit(1).
PrintFinalResult ==
    /\ pc = "print_final_result"
    /\ SysExit(IF failures = 0 THEN 0 ELSE 1)
    /\ UNCHANGED <<report_data, system_model, config, failures, expected_vendor,
                   tool_found, validator, models_output, vbios_output, commands,
                   which_log, fail_log, json_report, write_report_calls>>
    /\ UNCHANGED <<validate_result, host, run>>

Next ==
    \/ GetSystemModel
    \/ LoadConfig
    \/ BaselineLookup
    \/ VendorDeclaration
    \/ VendorPresenceCheck
    \/ ComponentValidation
    \/ Validate
    \/ NvidiaCheckModels
    \/ NvidiaCheckVbios
    \/ AmdCheckModels
    \/ AmdCheckVbios
    \/ IntelCheckModels
    \/ IntelCheckVbios
    \/ ValidateFinish
    \/ WriteReport
    \/ PrintFinalResult

Spec == Init /\ [][Next]_vars

-----------------------------------------------------------------------------
(* get_validator and its caller as functions of their inputs: the else     *)
(* branch of run_validation entered at gpu_spec = model_spec.get(...) for  *)
(* any vendor tag and any baseline entry.  In a whole run the comparison    *)
(* with tool_found admits the tags nvidia, amd and intel only.              *)

\* Vendor tags given to get_validator: the three it knows, an unknown one,
\* a known one in another case, the empty tag.
FactoryTags == {"nvidia", "amd", "intel", "matrox", "NVIDIA", ""}

\* Baseline entries for a tag: with any gpu_spec, or without one.
FactoryModelSpecs(tag) ==
    {[expected_gpu_vendor |-> tag, gpu_spec |-> g] : g \in GpuSpecs}
      \cup {[expected_gpu_vendor |-> tag]}

\* run_validation after add_check_to_report("GPU_Vendor", "PASS", ...).
FactoryInit ==
    /\ pc = "component_validation"
    /\ \E tag \in FactoryTags :
        /\ expected_vendor = tag
        /\ tool_found = tag
        /\ config \in {[k \in {SYS_A} |-> ms] : ms \in FactoryModelSpecs(tag)}
        /\ report_data = [report_id |-> "validation_report_<now>",
                          status |-> "FAIL",
                          system_model |-> SYS_A,
                          checks_performed |->
                              <<CheckResult("GPU_Vendor", "PASS", tag, tag, "")>>]
    /\ system_model = [none |-> FALSE, text |-> SYS_A]
    /\ failures = 0
    /\ validator = NoValidator
    /\ models_output = [none |-> TRUE, text |-> <<>>]
    /\ vbios_output = [none |-> TRUE, text |-> <<>>]
    /\ commands = <<CMD_DMIDECODE>>
    /\ which_log = <<>>
    /\ fail_log = <<>>
    /\ json_report = <<>>
    /\ write_report_calls = 0
    /\ validate_result = [returned |-> FALSE, value |-> FALSE]
    /\ host = HostUnasked
    /\ run = 1
    /\ exit_code = -1

FactoryNext ==
    \/ ComponentValidation
    \/ Validate
    \/ NvidiaCheckModels
    \/ NvidiaCheckVbios
    \/ AmdCheckModels
    \/ AmdCheckVbios
    \/ IntelCheckModels
    \/ IntelCheckVbios
    \/ ValidateFinish
    \/ WriteReport
    \/ PrintFinalResult

FactorySpec == FactoryInit /\ [][FactoryNext]_vars

-----------------------------------------------------------------------------
(* The validation executed twice in one interpreter, as the test modules   *)
(* do: main() is called again after it ended with SystemExit.  The module  *)
(* is not imported again, so its globals keep their values; the host       *)
(* answers every query as it did the first time.                           *)

\* validate_gpu.main() called a second time: its locals are new.
MainAgain ==
    /\ pc = "exited"
    /\ run = 1
    /\ run' = 2
    /\ pc' = "get_system_model"
    /\ system_model' = [none |-> TRUE, text |-> <<>>]
    /\ config' = <<>>
    /\ failures' = 0
    /\ expected_vendor' = None
    /\ tool_found' = None
    /\ validator' = NoValidator
    /\ models_output' = [none |-> TRUE, text |-> <<>>]
    /\ vbios_output' = [none |-> TRUE, text |-> <<>>]
    /\ commands' = <<>>
    /\ which_log' = <<>>
    /\ fail_log' = <<>>
    /\ write_report_calls' = 0
    /\ validate_result' = [returned |-> FALSE, value |-> FALSE]
    /\ exit_code' = -1
    /\ UNCHANGED <<report_data, json_report, host>>

RerunNext ==
    \/ Next
    \/ MainAgain

RerunSpec == Init /\ [][RerunNext]_vars

-----------------------------------------------------------------------------
(* Properties of a run                                                     *)

Checks == report_data.checks_performed

\* The positions of the ledger that hold an entry for the component.
EntriesOf(component) ==
    {k \in 1..Len(Checks) : Checks[k].component = component}

HasFailEntry == \E k \in 1..Len(Checks) : Checks[k].status = "FAIL"

\* write_report has set the status.
Finalized == write_report_calls > 0

\* The vendor commands executed so far (all but dmidecode).
VendorCommands == {commands[k] : k \in 2..Len(commands)}

\* C1: once write_report has run, the report status is PASS if and only if
\* no entry of checks_performed has status FAIL.
C1_AggregationInvariant ==
    Finalized => ((report_data.status = "PASS") <=> ~HasFailEntry)

\* The vendor-presence check has run and found another vendor's tool, or
\* none, than the baseline declares.
VendorMismatch == which_log # <<>> /\ tool_found # expected_vendor

\* C2: when the detected vendor differs from the declared one the run stops
\* at the vendor-presence check: the ledger is exactly one FAIL entry for
\* GPU_Vendor, no validator is created and no vendor command is executed,
\* the failure total is 1 and the exit code is 1.
C2_VendorPresenceGate ==
    VendorMismatch =>
        /\ Len(Checks) = 1
        /\ Checks[1].component = "GPU_Vendor"
        /\ Checks[1].status = "FAIL"
        /\ commands = <<CMD_DMIDECODE>>
        /\ validator = NoValidator
        /\ failures = 1
        /\ pc \in {"write_report", "print_final_result", "exited"}
        /\ pc = "exited" => exit_code = 1

\* A run that declared nvidia, found only the AMD tool and has exited.
C2_Witness ==
    /\ pc = "exited"
    /\ expected_vendor = "nvidia"
    /\ tool_found = "amd"
    /\ which_log = <<"nvidia-smi", "rocm-smi">>

\* The validator in use is the NVIDIA one, or the AMD one.
IsNvidia == validator.vendor_name = "NVIDIA"
IsAmd == validator.vendor_name = "AMD"

\* The model command, or the VBIOS command, was executed and succeeded.
ModelCommandSucceeded ==
    /\ (CMD_NVIDIA_MODEL \in VendorCommands \/ CMD_AMD_MODEL \in VendorCommands)
    /\ ~models_output.none

VbiosCommandSucceeded ==
    /\ (CMD_NVIDIA_VBIOS \in VendorCommands \/ CMD_AMD_VBIOS \in VendorCommands)
    /\ ~vbios_output.none

\* The lines of an output: all of them for NVIDIA, the non-blank ones for AMD.
LinesOf(output) ==
    IF IsAmd THEN NonBlank(Split(output.text)) ELSE Split(output.text)

ModelLines == LinesOf(models_output)
VbiosLines == LinesOf(vbios_output)

ModelPattern == IF IsAmd THEN AMD_MODEL_RE ELSE NVIDIA_MODEL_RE
VbiosPattern == IF IsAmd THEN AMD_VBIOS_RE ELSE NVIDIA_VBIOS_RE

\* The line matches the pattern; the trimmed value the pattern extracts.
Parses(pattern, line) == ReSearch(pattern, line).matched
Extracted(pattern, line) == Strip(ReSearch(pattern, line).group1)

\* The golden values of the validator in use.
ExpectedModel == validator.spec.expected_model
ExpectedVbiosSet ==
    {validator.spec.expected_vbios_list[k] :
        k \in 1..Len(validator.spec.expected_vbios_list)}

\* A line passes the model check, or the VBIOS check, given the match object
\* of its pattern on the line.
ModelLinePasses(match) ==
    match.matched /\ Strip(match.group1) = ExpectedModel

VbiosLinePasses(match) ==
    match.matched /\ Strip(match.group1) \in ExpectedVbiosSet

AllModelLinesPass(lines) ==
    \A i \in 1..Len(lines) : ModelLinePasses(ReSearch(ModelPattern, lines[i]))

AllVbiosLinesPass(lines) ==
    \A i \in 1..Len(lines) : VbiosLinePasses(ReSearch(VbiosPattern, lines[i]))

\* The hypotheses of an all-PASS run.
AllPassPremises ==
    /\ system_model.text \in DOMAIN config
    /\ which_log # <<>>
    /\ tool_found = expected_vendor
    /\ validator # NoValidator
    /\ {"expected_model", "expected_vbios_list"} \subseteq DOMAIN validator.spec
    /\ ModelCommandSucceeded
    /\ VbiosCommandSucceeded
    /\ AllModelLinesPass(ModelLines)
    /\ AllVbiosLinesPass(VbiosLines)
    /\ IsAmd => Len(VbiosLines) = Len(ModelLines)

AllPassConclusion ==
    /\ report_data.status = "PASS"
    /\ \A k \in 1..Len(Checks) : Checks[k].status = "PASS"
    /\ pc = "exited" => exit_code = 0

\* C3 as stated: a finalized run that meets the hypotheses of an all-PASS run
\* has status PASS, only PASS entries and exit code 0.
C3_AllPassRun ==
    (Finalized /\ AllPassPremises) => AllPassConclusion

\* C3 amended: the same, for runs whose model command printed at least one
\* line (non-blank for AMD).
C3_AllPassRunWithLines ==
    (Finalized /\ AllPassPremises /\ Len(ModelLines) >= 1) => AllPassConclusion

\* An AMD run with two GPUs, all lines golden, that has exited.
C3_Witness ==
    /\ pc = "exited"
    /\ AllPassPremises
    /\ IsAmd
    /\ Len(ModelLines) = 2
    /\ Len(VbiosLines) = 2

\* The number of GPUs the model check discovered (self.gpu_count for AMD).
DiscoveredModels == IF models_output.none THEN 0 ELSE Len(ModelLines)

\* The VBIOS check has run and its command succeeded.
VbiosCheckDone ==
    /\ pc \in {"validate_return", "write_report", "print_final_result", "exited"}
    /\ VbiosCommandSucceeded

\* A VBIOS line parses to a value outside expected_vbios_list, given the
\* match object of the pattern on the line.
WrongVbiosMatch(match) ==
    match.matched /\ Strip(match.group1) \notin ExpectedVbiosSet

\* VBIOS line i (one-based) parses to a value outside expected_vbios_list.
WrongVbios(i) == WrongVbiosMatch(ReSearch(VbiosPattern, VbiosLines[i]))

\* The entries of a line are exactly one: a FAIL with the extracted value.
WrongVbiosReported(match, entries) ==
    /\ Cardinality(entries) = 1
    /\ \A k \in entries :
          /\ Checks[k].status = "FAIL"
          /\ Checks[k].actual = Strip(match.group1)

\* A run with a wrong VBIOS value ends with status FAIL and exit code 1.
EndsInFail ==
    /\ Finalized => report_data.status = "FAIL"
    /\ pc = "exited" => exit_code = 1

\* What C4 states of one line, given its match object and its entries.
WrongVbiosLine(match, entries) ==
    WrongVbiosMatch(match) => (WrongVbiosReported(match, entries) /\ EndsInFail)

WrongVbiosLines(lines) ==
    \A i \in 1..Len(lines) :
        WrongVbiosLine(ReSearch(VbiosPattern, lines[i]),
                       EntriesOf(GpuComponent(i - 1, "VBIOS")))

\* C4 as stated: once the VBIOS check has run, every VBIOS line that parses
\* to a value outside expected_vbios_list has exactly one GPU_<i>_VBIOS
\* entry, a FAIL whose actual is that value, and the run ends in FAIL, 1.
C4_WrongVbios ==
    VbiosCheckDone => WrongVbiosLines(VbiosLines)

\* The same of one line where the number n of VBIOS lines is taken into
\* account: an AMD run with another number of lines than GPUs has no entry.
WrongVbiosLineCompared(n, match, entries) ==
    WrongVbiosMatch(match) =>
        /\ EndsInFail
        /\ IF IsAmd /\ n # DiscoveredModels
           THEN entries = {}
           ELSE WrongVbiosReported(match, entries)

WrongVbiosLinesCompared(lines) ==
    \A i \in 1..Len(lines) :
        WrongVbiosLineCompared(Len(lines), ReSearch(VbiosPattern, lines[i]),
                               EntriesOf(GpuComponent(i - 1, "VBIOS")))

\* C4 amended: the same where the line-by-line comparison runs, that is for
\* NVIDIA, and for AMD when the number of non-blank VBIOS lines equals the
\* number of GPUs the model check discovered; with another number of lines
\* the AMD run appends no GPU_<i>_VBIOS entry and still ends in FAIL, 1.
C4_WrongVbiosCompared ==
    VbiosCheckDone => WrongVbiosLinesCompared(VbiosLines)

\* An NVIDIA run that has exited: the model line is golden and the second
\* of two VBIOS lines holds a value outside the list.
C4_Witness ==
    /\ pc = "exited"
    /\ IsNvidia
    /\ VbiosCommandSucceeded
    /\ ModelCommandSucceeded
    /\ Len(ModelLines) = 1
    /\ Extracted(ModelPattern, ModelLines[1]) = ExpectedModel
    /\ Len(VbiosLines) = 2
    /\ ~WrongVbios(1)
    /\ WrongVbios(2)
    /\ Parses(VbiosPattern, VbiosLines[1])

\* The message of the AMD count mismatch.
CountMismatchMessage(vbios_count, gpu_count) ==
    "  [FAIL] VBIOS count (" \o ToString(vbios_count)
        \o ") does not match GPU count (" \o ToString(gpu_count) \o ")."

\* C5: a step of the AMD VBIOS check whose command succeeds with a number of
\* non-blank lines other than the number of model lines the model check
\* discovered logs the count-mismatch failure, adds exactly 1 to the
\* validator's failure counter and appends nothing to the ledger.
C5_AmdCountMismatch ==
    [][(/\ pc = "check_vbios"
        /\ IsAmd
        /\ CMD_AMD_VBIOS \in {commands'[k] : k \in 1..Len(commands')}
        /\ ~vbios_output'.none
        /\ Len(NonBlank(Split(vbios_output'.text))) # DiscoveredModels)
       => (/\ validator'.failures = validator.failures + 1
           /\ report_data' = report_data
           /\ fail_log' = Append(fail_log,
                  CountMismatchMessage(Len(NonBlank(Split(vbios_output'.text))),
                                       DiscoveredModels)))]_vars

\* After the AMD VBIOS check: two model lines were discovered and the VBIOS
\* command printed one line.
C5_Witness ==
    /\ pc = "validate_return"
    /\ IsAmd
    /\ ModelCommandSucceeded
    /\ VbiosCommandSucceeded
    /\ Len(ModelLines) = 2
    /\ Len(VbiosLines) = 1
    /\ EntriesOf(GpuComponent(0, "VBIOS")) = {}

\* C6: a run that has exited did so with code 0 or 1, and with code 0 exactly
\* when write_report set the status PASS, that is when the failure total is
\* 0; a run that ends before write_report, that holds a FAIL entry or whose
\* validator counted a failure exits with code 1; a run that has not exited
\* has a next step.
C6_ExitStatus ==
    /\ pc = "exited" =>
          /\ exit_code \in {0, 1}
          /\ exit_code = 0 <=> (Finalized /\ report_data.status = "PASS")
          /\ exit_code = 0 <=> (Finalized /\ failures = 0)
          /\ (~Finalized \/ HasFailEntry \/ validator.failures > 0) => exit_code = 1
    /\ pc # "exited" => (exit_code = -1 /\ ENABLED Next)

\* An NVIDIA run that exited with code 1 after two failures.
C6_Witness ==
    /\ pc = "exited"
    /\ Finalized
    /\ IsNvidia
    /\ failures = 2
    /\ exit_code = 1

\* The step calls _validate_list_of_items: a model check, or a VBIOS check,
\* of the NVIDIA or AMD validator whose command succeeds (and, for the AMD
\* VBIOS check, prints as many non-blank lines as self.gpu_count).
ModelListCall ==
    /\ pc = "check_models"
    /\ IsNvidia \/ IsAmd
    /\ ~models_output'.none

VbiosListCall ==
    /\ pc = "check_vbios"
    /\ IsNvidia \/ IsAmd
    /\ ~vbios_output'.none
    /\ IsAmd => Len(LinesOf(vbios_output')) = validator.gpu_count

\* The entry is what the loop body yields for a line, given the match object
\* of the pattern on the line, in EXACT mode against the golden model.
ExactEntry(entry, line, match) ==
    /\ entry.expected = ExpectedModel
    /\ IF ~match.matched
       THEN /\ entry.status = "FAIL"
            /\ entry.actual = PARSE_ERROR
            /\ entry.notes = line
       ELSE /\ entry.status \in {"PASS", "FAIL"}
            /\ entry.status = "PASS" <=> Strip(match.group1) = ExpectedModel

\* The same in ANY_OF mode against the set of golden VBIOS values.
AnyOfEntry(entry, line, match) ==
    /\ entry.expected = validator.spec.expected_vbios_list
    /\ IF ~match.matched
       THEN /\ entry.status = "FAIL"
            /\ entry.actual = PARSE_ERROR
            /\ entry.notes = line
       ELSE /\ entry.status \in {"PASS", "FAIL"}
            /\ entry.status = "PASS" <=>
                   Strip(match.group1) \in ExpectedVbiosSet

\* The entries appended to a ledger of n entries are those of the lines.
ExactEntries(lines, n, checks) ==
    /\ Len(checks) = n + Len(lines)
    /\ \A i \in 1..Len(lines) :
          ExactEntry(checks[n + i], lines[i], ReSearch(ModelPattern, lines[i]))

AnyOfEntries(lines, n, checks) ==
    /\ Len(checks) = n + Len(lines)
    /\ \A i \in 1..Len(lines) :
          AnyOfEntry(checks[n + i], lines[i], ReSearch(VbiosPattern, lines[i]))

\* C7: the entry a call of the list validator appends for a line is FAIL /
\* "Parse Error" / the raw line when the pattern does not match, and
\* otherwise PASS exactly when the trimmed value equals the expected model
\* (EXACT) or belongs to the expected VBIOS set (ANY_OF), whatever the order
\* of the list; the entry's expected is the configured value.
C7_PerLineComparison ==
    [][/\ ModelListCall
            => ExactEntries(LinesOf(models_output'), Len(Checks), Checks')
       /\ VbiosListCall
            => AnyOfEntries(LinesOf(vbios_output'), Len(Checks), Checks')]_vars

\* _validate_list_of_items was called for the model check, and for the
\* VBIOS check (for AMD only when the counts agree).
ModelListValidated ==
    /\ pc \in {"check_vbios", "validate_return", "write_report",
               "print_final_result", "exited"}
    /\ ModelCommandSucceeded

VbiosListValidated ==
    /\ VbiosCheckDone
    /\ IsAmd => Len(VbiosLines) = DiscoveredModels

\* After an NVIDIA VBIOS check against the list <<95.., 96..>>: the first
\* line holds the second golden value and passes, the second line does not
\* parse; the model line held another model.
C7_Witness ==
    /\ pc = "validate_return"
    /\ IsNvidia
    /\ ModelListValidated
    /\ VbiosListValidated
    /\ validator.spec.expected_vbios_list = <<VBIOS_2, VBIOS_1>>
    /\ Len(VbiosLines) = 2
    /\ Parses(VbiosPattern, VbiosLines[1])
    /\ Extracted(VbiosPattern, VbiosLines[1]) = VBIOS_1
    /\ ~Parses(VbiosPattern, VbiosLines[2])
    /\ Len(ModelLines) = 1
    /\ Parses(ModelPattern, ModelLines[1])
    /\ Extracted(ModelPattern, ModelLines[1]) # ExpectedModel
    /\ Len(Checks) = 4
    /\ Checks[2].status = "FAIL"
    /\ Checks[3].status = "PASS"
    /\ Checks[4].status = "FAIL"

\* The step appends to the ledger one entry per line, in line order, the
\* entry of the line at zero-based index i named GPU_<i>_<check_name>.
AppendsOnePerLine(lines, check_name) ==
    /\ Len(Checks') = Len(Checks) + Len(lines)
    /\ \A k \in 1..Len(Checks) : Checks'[k].component = Checks[k].component
    /\ \A i \in 1..Len(lines) :
          Checks'[Len(Checks) + i].component =
              "GPU_" \o ToString(i - 1) \o "_" \o check_name

\* C8: a call of the list validator with n >= 1 lines appends exactly n
\* entries in line order, the one for the line at zero-based index i with
\* component GPU_<i>_<check_name>, whatever the outcome of the lines before
\* it; no index is skipped or repeated.
C8_ComponentIdentity ==
    [][/\ (ModelListCall /\ LinesOf(models_output') # <<>>)
            => AppendsOnePerLine(LinesOf(models_output'), "Model")
       /\ (VbiosListCall /\ LinesOf(vbios_output') # <<>>)
            => AppendsOnePerLine(LinesOf(vbios_output'), "VBIOS")]_vars

\* After a model check of two lines: the first line does not parse and the
\* second has an entry of its own.
C8_Witness ==
    /\ pc = "check_vbios"
    /\ IsNvidia \/ IsAmd
    /\ ~models_output.none
    /\ Len(ModelLines) = 2
    /\ ~Parses(ModelPattern, ModelLines[1])
    /\ Len(Checks) = 3
    /\ Checks[2].component = "GPU_0_Model"
    /\ Checks[2].status = "FAIL"
    /\ Checks[3].component = "GPU_1_Model"

\* The number of lines whose outcome is not PASS.
NotPassModel(lines) ==
    Cardinality({i \in 1..Len(lines) :
        ~ModelLinePasses(ReSearch(ModelPattern, lines[i]))})

NotPassVbios(lines) ==
    Cardinality({i \in 1..Len(lines) :
        ~VbiosLinePasses(ReSearch(VbiosPattern, lines[i]))})

\* C9: a call of the list validator with a non-empty list adds to the
\* validator's failure counter exactly the number of lines whose outcome is
\* not PASS; no step of a run decreases the counter.
C9_FailureCounting ==
    [][/\ (ModelListCall /\ LinesOf(models_output') # <<>>)
            => validator'.failures =
                   validator.failures + NotPassModel(LinesOf(models_output'))
       /\ (VbiosListCall /\ LinesOf(vbios_output') # <<>>)
            => validator'.failures =
                   validator.failures + NotPassVbios(LinesOf(vbios_output'))
       /\ validator'.failures >= validator.failures]_vars

\* After both checks of two lines each: one model line passed and one did
\* not parse, one VBIOS line passed and one held a value outside the list.
C9_Witness ==
    /\ pc = "validate_return"
    /\ IsNvidia \/ IsAmd
    /\ ModelListValidated
    /\ VbiosListValidated
    /\ Len(ModelLines) = 2
    /\ Len(VbiosLines) = 2
    /\ NotPassModel(ModelLines) = 1
    /\ \E i \in 1..2 : ~Parses(ModelPattern, ModelLines[i])
    /\ NotPassVbios(VbiosLines) = 1
    /\ \E i \in 1..2 : /\ Parses(VbiosPattern, VbiosLines[i])
                       /\ Extracted(VbiosPattern, VbiosLines[i])
                              \notin ExpectedVbiosSet
    /\ validator.failures = 2

\* The message logged for an empty list.
NoItemsMessage(check_name) ==
    "  [FAIL] Command returned no items for " \o check_name \o "."

\* C10: a call of the list validator with an empty list logs the failure
\* for that check, adds exactly 1 to the validator's failure counter and
\* appends nothing to the ledger.
C10_EmptyItemList ==
    [][/\ (ModelListCall /\ LinesOf(models_output') = <<>>)
            => /\ validator'.failures = validator.failures + 1
               /\ report_data' = report_data
               /\ fail_log' = Append(fail_log, NoItemsMessage("Model"))
       /\ (VbiosListCall /\ LinesOf(vbios_output') = <<>>)
            => /\ validator'.failures = validator.failures + 1
               /\ report_data' = report_data
               /\ fail_log' = Append(fail_log, NoItemsMessage("VBIOS"))]_vars

\* After both AMD checks: each command succeeded and printed only blank
\* lines, so the list validator was called twice with an empty list.
C10_Witness ==
    /\ pc = "validate_return"
    /\ IsAmd
    /\ ModelCommandSucceeded
    /\ VbiosCommandSucceeded
    /\ ModelLines = <<>>
    /\ VbiosLines = <<>>
    /\ validator.failures = 2
    /\ fail_log = <<NoItemsMessage("Model"), NoItemsMessage("VBIOS")>>
    /\ \A k \in 1..Len(Checks) : Checks[k].component = "GPU_Vendor"

\* The step is a model check, or a VBIOS check, of the NVIDIA or AMD
\* validator whose command fails (run_command returns None).
ModelCommandFails ==
    /\ pc = "check_models"
    /\ IsNvidia \/ IsAmd
    /\ models_output'.none

VbiosCommandFails ==
    /\ pc = "check_vbios"
    /\ IsNvidia \/ IsAmd
    /\ vbios_output'.none

\* The component tags of a failed command.
CommandFailureTags ==
    {"NVIDIA_SMI_MODEL", "NVIDIA_SMI_VBIOS", "ROCM_SMI_MODEL", "ROCM_SMI_VBIOS"}

\* The step appends exactly one entry, a FAIL with the tag of a failed
\* command, and adds exactly 1 to the validator's failure counter.
OneCommandFailure ==
    /\ Len(Checks') = Len(Checks) + 1
    /\ \A k \in 1..Len(Checks) : Checks'[k].component = Checks[k].component
    /\ Checks'[Len(Checks')].status = "FAIL"
    /\ Checks'[Len(Checks')].component \in CommandFailureTags
    /\ validator'.failures = validator.failures + 1

\* C11: a model check or VBIOS check whose command fails appends exactly one
\* FAIL entry with a vendor-specific component tag (and so no GPU_<i>_*
\* entry) and adds exactly 1 to the validator's failure counter.
C11_CommandFailurePropagation ==
    [][(ModelCommandFails \/ VbiosCommandFails) => OneCommandFailure]_vars

\* validate() has been entered with a gpu_spec that lacks one of the keys.
KeysMissing ==
    /\ validator # NoValidator
    /\ pc # "validate"
    /\ ~({"expected_model", "expected_vbios_list"} \subseteq DOMAIN validator.spec)

\* The tag of the validator's vendor, in upper case, followed by _CONFIG.
ConfigTag ==
    IF IsNvidia THEN "NVIDIA_CONFIG"
    ELSE IF IsAmd THEN "AMD_CONFIG"
    ELSE "INTEL_CONFIG"

\* C12: once validate() has run on a gpu_spec that lacks expected_model or
\* expected_vbios_list, the ledger holds the GPU_Vendor PASS entry and
\* exactly one more entry, a FAIL named <VENDOR>_CONFIG; the validator's
\* failure count is 1, validate() returned false (its failure was added to
\* the run's total), and no vendor command was executed.
C12_MissingBaselineKeys ==
    KeysMissing =>
        /\ pc \in {"write_report", "print_final_result", "exited"}
        /\ Len(Checks) = 2
        /\ Checks[1].component = "GPU_Vendor"
        /\ Checks[2].component = ConfigTag
        /\ Checks[2].status = "FAIL"
        /\ validator.failures = 1
        /\ failures = 1
        /\ VendorCommands = {}
        /\ models_output.none /\ vbios_output.none

\* An exited AMD run whose gpu_spec held expected_model only.
C12_Witness ==
    /\ pc = "exited"
    /\ IsAmd
    /\ DOMAIN validator.spec = {"expected_model"}
    /\ Len(Checks) = 2
    /\ Checks[2].component = "AMD_CONFIG"
    /\ exit_code = 1

\* C13: when validate() has returned, it has appended at least one entry
\* after the GPU_Vendor entry or its validator counted at least one failure,
\* and it returned true exactly when the validator's failure counter is 0.
C13_NoSilentOutcome ==
    validate_result.returned =>
        /\ Len(Checks) >= 2 \/ validator.failures >= 1
        /\ validate_result.value <=> validator.failures = 0

\* validate() of the NVIDIA validator has returned false after both commands
\* failed: nothing was appended and the counter is 2.
C13_Witness ==
    /\ validate_result.returned
    /\ ~validate_result.value
    /\ IsNvidia
    /\ CMD_NVIDIA_MODEL \in VendorCommands
    /\ CMD_NVIDIA_VBIOS \in VendorCommands
    /\ models_output.none
    /\ vbios_output.none
    /\ Len(Checks) = 1
    /\ validator.failures = 2

IsIntel == validator.vendor_name = "Intel"

\* C14: once validate() of the Intel validator has returned for a gpu_spec
\* with both keys, it has appended exactly one entry, a SKIP, executed no
\* vendor command, counted no failure and returned true; the run's total
\* stays 0, so the run finalizes with status PASS and exits with code 0.
C14_IntelPlaceholder ==
    (/\ IsIntel
     /\ {"expected_model", "expected_vbios_list"} \subseteq DOMAIN validator.spec
     /\ validate_result.returned)
    => /\ Len(Checks) = 2
       /\ Checks[1].component = "GPU_Vendor"
       /\ Checks[2].component = "Intel_Check"
       /\ Checks[2].status = "SKIP"
       /\ VendorCommands = {}
       /\ validator.failures = 0
       /\ validate_result.value
       /\ failures = 0
       /\ Finalized => report_data.status = "PASS"
       /\ pc = "exited" => exit_code = 0

\* An exited run with declared and detected vendor intel and both keys.
C14_Witness ==
    /\ pc = "exited"
    /\ IsIntel
    /\ expected_vendor = "intel"
    /\ tool_found = "intel"
    /\ {"expected_model", "expected_vbios_list"} \subseteq DOMAIN validator.spec
    /\ report_data.status = "PASS"
    /\ exit_code = 0
    /\ commands = <<CMD_DMIDECODE>>

\* The step calls get_validator: component validation with a gpu_spec that
\* is present and not empty.
FactoryCall ==
    /\ pc = "component_validation"
    /\ "gpu_spec" \in DOMAIN config[system_model.text]
    /\ DOMAIN config[system_model.text].gpu_spec # {}

\* The validator is the one of the vendor, with no failure counted, bound
\* to the gpu_spec.
FreshValidator(v, vendor_name, gpu_spec) ==
    /\ v.vendor_name = vendor_name
    /\ v.failures = 0
    /\ v.spec = gpu_spec

\* What get_validator gives for the tag, and what the call leaves alone.
FactoryResult(tag, gpu_spec) ==
    /\ tag = "nvidia" => FreshValidator(validator', "NVIDIA", gpu_spec)
    /\ tag = "amd" => FreshValidator(validator', "AMD", gpu_spec)
    /\ tag = "intel" => FreshValidator(validator', "Intel", gpu_spec)
    /\ tag \notin {"nvidia", "amd", "intel"} =>
          /\ validator' = NoValidator
          /\ pc' = "write_report"
          /\ exit_code' = exit_code
    /\ report_data' = report_data

\* C15: get_validator gives the NVIDIA, AMD or Intel validator for the tags
\* nvidia, amd, intel, with failure counter 0 and bound to the gpu_spec, and
\* for every other tag gives None: the caller goes on without an exception;
\* the call appends nothing to the report.
C15_FactorySelection ==
    [][FactoryCall
         => FactoryResult(expected_vendor, config[system_model.text].gpu_spec)]_vars

\* After get_validator was called with the tag NVIDIA in upper case: no
\* validator, nothing appended.
C15_Witness ==
    /\ pc = "write_report"
    /\ expected_vendor = "NVIDIA"
    /\ "gpu_spec" \in DOMAIN config[system_model.text]
    /\ DOMAIN config[system_model.text].gpu_spec # {}
    /\ validator = NoValidator
    /\ Len(Checks) = 1

\* Two reports agree in every field but report_id.
SameReport(a, b) ==
    /\ a.status = b.status
    /\ a.system_model = b.system_model
    /\ Len(a.checks_performed) = Len(b.checks_performed)
    /\ \A k \in 1..Len(a.checks_performed) :
          /\ a.checks_performed[k].component = b.checks_performed[k].component
          /\ a.checks_performed[k].status = b.checks_performed[k].status

\* C16: the reports that two executions against the same host state and the
\* same baseline write agree on status, system_model and the entries of
\* checks_performed, in number and in order.
C16_Idempotence ==
    \A i, j \in 1..Len(json_report) : SameReport(json_report[i], json_report[j])

\* The ledger holds an entry for the component.
Recorded(component) == EntriesOf(component) # {}

\* No gate after the baseline lookup has acted: no tool was probed, no
\* vendor command was executed, no validator was created.
NothingProbed ==
    /\ which_log = <<>>
    /\ tool_found = None
    /\ commands = <<CMD_DMIDECODE>>
    /\ validator = NoValidator

\* The gates act in their order: each gate has acted only in runs that
\* passed the gates before it.
GatesInOrder ==
    /\ config # <<>> => ~system_model.none
    /\ expected_vendor # None => system_model.text \in DOMAIN config
    /\ which_log # <<>> => expected_vendor \notin {None, ""}
    /\ validator # NoValidator =>
          /\ tool_found = expected_vendor
          /\ Checks[1].component = "GPU_Vendor"
          /\ Checks[1].status = "PASS"
    /\ Len(commands) >= 2 => validator # NoValidator

EarlyGateFailed ==
    \/ system_model.none
    \/ config = <<>>

\* C18: a run that has exited finalized its report exactly once (write_report
\* set the status once); when it failed at identity resolution or at the
\* loading of the baseline, the finalized status is FAIL and the exit code
\* is 1.
C18_ReportOnEveryRun ==
    pc = "exited" =>
        /\ write_report_calls = 1
        /\ exit_code \in {0, 1}
        /\ EarlyGateFailed => (report_data.status = "FAIL" /\ exit_code = 1)

\* Component validation called get_validator and got None: the vendor gate
\* was passed, the gpu_spec is there, and no validator exists.
NullValidatorYielded ==
    /\ pc \in {"write_report", "print_final_result", "exited"}
    /\ Len(Checks) >= 1
    /\ Checks[1].component = "GPU_Vendor"
    /\ Checks[1].status = "PASS"
    /\ ~Recorded("GPU_Spec")
    /\ validator = NoValidator

ModelComponents ==
    {"GPU_" \o ToString(i) \o "_Model" : i \in 0..(MaxLines - 1)}
        \cup {"ROCM_SMI_MODEL", "Intel_Check"}

VbiosComponents ==
    {"GPU_" \o ToString(i) \o "_VBIOS" : i \in 0..(MaxLines - 1)}
        \cup {"ROCM_SMI_VBIOS"}

\* The run reached component validation: the vendor gate recorded its PASS.
ReachedComponentValidation ==
    \E k \in 1..Len(Checks) :
        /\ Checks[k].component = "GPU_Vendor"
        /\ Checks[k].status = "PASS"

\* The positions of the ledger that hold an entry with one of the components.
PositionsOf(components) ==
    {k \in 1..Len(Checks) : Checks[k].component \in components}

\* After the first entry the ledger holds the model entries, then the VBIOS
\* entries, and nothing else once one of them is there.
ModelThenVbios(models, vbios) ==
    /\ \A i \in vbios : \A j \in models : j < i
    /\ (models \cup vbios) # {} =>
          (models \cup vbios) = 2..Len(Checks)

\* The commands of a validator are executed in the order model, VBIOS, and
\* the VBIOS command only once the model check is over.
ModelCommandFirst ==
    /\ Len(commands) <= 3
    /\ Len(commands) >= 2 => commands[2] \in {CMD_NVIDIA_MODEL, CMD_AMD_MODEL}
    /\ Len(commands) = 3 => commands[3] \in {CMD_NVIDIA_VBIOS, CMD_AMD_VBIOS}
    /\ Len(commands) = 3 => pc \notin {"validate", "check_models", "check_vbios"}

\* C20: in a run that reached component validation the ledger begins with
\* the only GPU_Vendor entry, a PASS, followed by the entries of the model
\* check, followed by the entries of the VBIOS check; before the model check
\* is over there is no VBIOS entry and the VBIOS command was not executed.
C20_ChronologicalOrder ==
    ReachedComponentValidation =>
        /\ EntriesOf("GPU_Vendor") = {1}
        /\ Checks[1].status = "PASS"
        /\ ModelThenVbios(PositionsOf(ModelComponents),
                          PositionsOf(VbiosComponents))
        /\ ModelCommandFirst
        /\ pc \in {"component_validation", "validate", "check_models"}
              => Len(Checks) = 1
        /\ pc = "check_vbios" => PositionsOf(VbiosComponents) = {}

\* After both checks of a validator, two lines each: the ledger holds the
\* vendor entry, two model entries and two VBIOS entries.
C20_Witness ==
    /\ pc = "validate_return"
    /\ Len(Checks) = 5
    /\ Checks[1].component = "GPU_Vendor"
    /\ Checks[2].component = "GPU_0_Model"
    /\ Checks[3].component = "GPU_1_Model"
    /\ Checks[4].component = "GPU_0_VBIOS"
    /\ Checks[5].component = "GPU_1_VBIOS"
    /\ Len(commands) = 3

\* The vendor tools were probed; shutil.which answered yes for the last
\* tool asked for exactly when a vendor was detected.
Probed == which_log # <<>>

\* The tools the probe found missing: all it asked for but the detected one.
FoundMissing ==
    {which_log[k] : k \in 1..(Len(which_log) - (IF tool_found = None THEN 0 ELSE 1))}

\* The vendor whose tool the probe asked for last.
LastProbed ==
    IF which_log[Len(which_log)] = "nvidia-smi" THEN "nvidia"
    ELSE IF which_log[Len(which_log)] = "rocm-smi" THEN "amd"
    ELSE "intel"

\* C21: the probe asks for the tools in the order nvidia-smi, rocm-smi,
\* level-zero-ctl and stops at the first installed one, whose vendor is the
\* detected vendor (None when all three are missing); when nvidia-smi is
\* installed no other tool is asked for, the check passes only for declared
\* vendor nvidia, and a declared amd or intel gets a GPU_Vendor FAIL.
C21_ToolDetectionPriority ==
    Probed =>
        /\ which_log \in {<<"nvidia-smi">>, <<"nvidia-smi", "rocm-smi">>,
                          <<"nvidia-smi", "rocm-smi", "level-zero-ctl">>}
        /\ tool_found \in {LastProbed, None}
        /\ tool_found = None => Len(which_log) = 3
        /\ "nvidia-smi" \notin FoundMissing =>
              /\ which_log = <<"nvidia-smi">>
              /\ tool_found = "nvidia"
              /\ Checks[1].component = "GPU_Vendor"
              /\ Checks[1].actual = "nvidia"
              /\ (Checks[1].status = "PASS") <=> (expected_vendor = "nvidia")
              /\ expected_vendor \in {"amd", "intel"} =>
                    /\ Checks[1].status = "FAIL"
                    /\ Len(Checks) = 1

\* The NVIDIA tool is installed and the baseline declares amd: the run has
\* exited with the GPU_Vendor FAIL that names nvidia as found.
C21_Witness ==
    /\ pc = "exited"
    /\ which_log = <<"nvidia-smi">>
    /\ expected_vendor = "amd"
    /\ Len(Checks) = 1
    /\ Checks[1].status = "FAIL"
    /\ Checks[1].actual = "nvidia"

\* The ledger of a value of report_data.
LedgerOf(report) == report["checks_performed"]

\* The old ledger is the beginning of the new one, entry for entry.
IsPrefix(old, new) ==
    /\ Len(old) <= Len(new)
    /\ \A k \in 1..Len(old) :
          /\ new[k].component = old[k].component
          /\ new[k] = old[k]

\* C22: a step leaves the ledger as it is or appends at its end, so the
\* ledger before the step is a prefix of the ledger after it; the status
\* field changes only in the write_report step.
C22_AppendOnlyLedger ==
    [][/\ IsPrefix(LedgerOf(report_data), LedgerOf(report_data'))
       /\ report_data'.status # report_data.status =>
             /\ pc = "write_report"
             /\ write_report_calls' = write_report_calls + 1]_vars

\* Entries were appended in three different steps and write_report then
\* changed the status to PASS.
C22_Witness ==
    /\ pc = "print_final_result"
    /\ report_data.status = "PASS"
    /\ Len(Checks) = 3
    /\ Checks[1].component = "GPU_Vendor"
    /\ Checks[2].component = "GPU_0_Model"
    /\ Checks[3].component = "GPU_0_VBIOS"

\* The ledger holds a FAIL entry appended by run_validation or by a
\* validator (not by get_system_model or load_config).
HasRunValidationFail ==
    \E k \in 1..Len(Checks) :
        /\ Checks[k].status = "FAIL"
        /\ Checks[k].component \notin {"System_Model", "YAML_Load", "YAML_Parse"}

\* C23: a finalized report with status PASS holds no FAIL entry.  On the way
\* there, a FAIL entry of run_validation or of a validator is counted in
\* run_validation's failures or in the validator's, and it is counted in the
\* failures handed to write_report.
C23_NoFalsePass ==
    /\ (Finalized /\ report_data.status = "PASS") =>
          /\ ~HasFailEntry
          /\ failures = 0
    /\ HasRunValidationFail => (failures >= 1 \/ validator.failures >= 1)
    /\ (HasRunValidationFail /\ (pc = "write_report" \/ Finalized)) =>
          failures >= 1

\* The AMD validator found two GPUs, no step appended a FAIL entry or
\* counted a failure, and the report was finalized with status PASS.
C23_Witness ==
    /\ Finalized
    /\ report_data.status = "PASS"
    /\ IsAmd
    /\ validator.gpu_count = 2
    /\ Len(Checks) = 5
    /\ ~HasFailEntry
    /\ failures = 0

\* The AMD validator executed its model command and the command failed.
AmdModelFailed ==
    /\ IsAmd
    /\ CMD_AMD_MODEL \in VendorCommands
    /\ models_output.none

\* The message of the count comparison for n VBIOS lines and no GPU.
CountMismatchLogged(n) ==
    \E k \in 1..Len(fail_log) :
        fail_log[k] = "  [FAIL] VBIOS count (" \o ToString(n)
                          \o ") does not match GPU count (0)."

\* What the VBIOS step leaves after a failed model command when the VBIOS
\* command gave n non-blank lines.
CascadeOf(n) ==
    n >= 1 =>
        /\ validator.failures = 2
        /\ Len(Checks) = 2
        /\ PositionsOf(VbiosComponents) = {}
        /\ CountMismatchLogged(n)
        /\ validate_result.returned =>
              /\ ~validate_result.value
              /\ failures = 2

\* C24: after a failed AMD model command the ledger holds the
\* ROCM_SMI_MODEL FAIL entry, gpu_count is 0 and the VBIOS check is still
\* run; when the VBIOS command then gives n >= 1 non-blank lines the step
\* ends in the count mismatch: validator.failures is 2, the ledger has no
\* GPU_<i>_VBIOS entry, and validate() returns False.
C24_AmdFailureCascade ==
    AmdModelFailed =>
        /\ validator.gpu_count = 0
        /\ Len(Checks) >= 2
        /\ Checks[2].component = "ROCM_SMI_MODEL"
        /\ Checks[2].status = "FAIL"
        /\ pc \in {"check_vbios", "validate_return", "write_report",
                   "print_final_result", "exited"}
        /\ pc # "check_vbios" => CMD_AMD_VBIOS \in VendorCommands
        /\ VbiosCommandSucceeded =>
              CascadeOf(Len(NonBlank(Split(vbios_output.text))))

\* The model command failed, the VBIOS command gave two lines that both
\* carry a value of the golden list, and validate() has returned.
C24_Witness ==
    /\ AmdModelFailed
    /\ VbiosCommandSucceeded
    /\ Len(VbiosLines) = 2
    /\ AllVbiosLinesPass(VbiosLines)
    /\ validate_result.returned
    /\ validator.failures = 2

\* The tags the vendor probe can give, which are the tags get_validator knows.
ProbeTags == {"nvidia", "amd", "intel"}

\* run_validation is between the vendor comparison and its return.
InComponentValidation ==
    pc \in {"component_validation", "validate", "check_models", "check_vbios",
            "validate_return"}

\* run_validation has returned, or main has gone on from there.
RunValidationOver == pc \in {"write_report", "print_final_result", "exited"}

\* C25: in a run, component validation is entered only with a declared
\* vendor equal to the detected one, which is nvidia, amd or intel;
\* get_validator never gives None there; and a run whose declared vendor
\* was compared and is none of the three ends with the single GPU_Vendor
\* FAIL entry and without a validator.
C25_FactoryNullUnreachable ==
    /\ InComponentValidation =>
          /\ expected_vendor = tool_found
          /\ expected_vendor \in ProbeTags
          /\ pc # "component_validation" => validator # NoValidator
    /\ ~NullValidatorYielded
    /\ validator # NoValidator => validator.vendor_name \in {"NVIDIA", "AMD", "Intel"}
    /\ (RunValidationOver /\ Recorded("GPU_Vendor")
          /\ expected_vendor \notin ProbeTags) =>
          /\ Len(Checks) = 1
          /\ Checks[1].status = "FAIL"
          /\ validator = NoValidator
          /\ failures = 1

\* get_validator was called in a run and gave the Intel validator, whose
\* run is over.
C25_Witness ==
    /\ RunValidationOver
    /\ expected_vendor = "intel"
    /\ tool_found = "intel"
    /\ validator # NoValidator
    /\ validator.vendor_name = "Intel"

====
